---- MODULE Spec2Model ----
(***************************************************************************)
(* A model of the boids sketch: the Boid class and the per-frame callback  *)
(* of src/src/index.ts, the Color constructor of the utils module, and the *)
(* Vector2 operations they use.                                            *)
(*                                                                         *)
(* Numbers.  Coordinates, speeds and delta times are integers.  Angles are *)
(* counted in half degrees, so that Math.PI is the integer PI below and    *)
(* every angle the model compares is a whole number of units.              *)
(***************************************************************************)
EXTENDS Integers, Sequences, FiniteSets, TLC

VARIABLES
  CANVAS_WIDTH,   \* engine: the field width set by background()
  CANVAS_HEIGHT,  \* engine: the field height set by background()
  boids,          \* index.ts: the global array of boids
  c,              \* index.ts: the global indicator Color
  pc,             \* position inside the per-frame callback
  cur,            \* index of the boid the callback's loop is at
  deltaTime,      \* the deltaTime argument of the running callback
  calls,          \* the calls made by the running (or last) callback, in order
  frame,          \* number of completed frames
  sector,         \* arguments of a direct checkIntersection call
  result,         \* what that call returned
  colorArg,       \* argument of a Color constructor call
  color,          \* the Color object constructed
  warned,         \* whether the constructor called console.warn
  heap,           \* the Vector2 objects, by reference (position in the sequence)
  original,       \* reference to a vector
  duplicate,      \* reference to what copy() or from() of it returned; 0 before
  last,           \* the last Vector2 operation: its name, receiver, argument,
                  \* the reference it returned and the heap before it
  ops,            \* number of Vector2 operations performed
  clock,          \* engine: Date.now()
  then,           \* engine: the variable then of the running update()
  raf,            \* engine: what the pending requestAnimationFrame will run
  rafFrames,      \* engine: number of animation frames delivered
  invoked         \* engine: the clock at each invocation of the callback, in order

vars == <<CANVAS_WIDTH, CANVAS_HEIGHT, boids, c, pc, cur, deltaTime, calls,
          frame, sector, result, colorArg, color, warned,
          heap, original, duplicate, last, ops, clock, then, raf, rafFrames, invoked>>

boidVars == <<CANVAS_WIDTH, CANVAS_HEIGHT, boids, c, pc, cur, deltaTime,
              calls, frame>>
sectorVars == <<sector, result>>
colorVars == <<colorArg, color, warned>>
vectorVars == <<heap, original, duplicate, last, ops>>
engineVars == <<clock, then, raf, rafFrames, invoked>>

\* The values of the variables a specification does not use.
NoLast == [op |-> "none", this |-> 0, arg |-> 0, ret |-> 0, before |-> <<>>]
VectorIdle ==
  heap = <<>> /\ original = 0 /\ duplicate = 0 /\ last = NoLast /\ ops = 0
EngineIdle ==
  clock = 0 /\ then = 0 /\ raf = "none" /\ rafFrames = 0 /\ invoked = <<>>

(***************************************************************************)
(* Bounds of the model.                                                    *)
(***************************************************************************)
MaxFrames == 2
MaxBoids == 2

(***************************************************************************)
(* Math.                                                                   *)
(***************************************************************************)
\* Math.PI, in angle units (half degrees).
PI == 360

Abs(n) == IF n < 0 THEN -n ELSE n
Min(a, b) == IF a < b THEN a ELSE b
Max(a, b) == IF a > b THEN a ELSE b

\* The angle of (x, y), 0 < y < x, which lies strictly between 0 and 45
\* degrees: it is placed in its 15-degree sector and the sector's middle is
\* returned.  tan 15 = 2 - sqrt 3 and tan 30 = 1 / sqrt 3, so no integer
\* vector lies on a sector's border and the comparisons are exact.
OctantAngle(x, y) ==
  IF y = 0 THEN 0
  ELSE IF y = x THEN PI \div 4
  ELSE IF 3 * x * x < (2 * x - y) * (2 * x - y) THEN PI \div 24
  ELSE IF 3 * y * y < x * x THEN 3 * (PI \div 24)
  ELSE 5 * (PI \div 24)

\* Math.atan2(y, x), in (-PI, PI]; atan2(0, 0) = 0.  Exact when the vector
\* lies on an axis or a diagonal; otherwise the middle of the 15-degree
\* sector that holds it.
atan2(y, x) ==
  LET ax == Abs(x)
      ay == Abs(y)
      q == IF ax = 0 /\ ay = 0 THEN 0
           ELSE IF ay <= ax THEN OctantAngle(ax, ay)
           ELSE PI \div 2 - OctantAngle(ay, ax)
      h == IF x < 0 THEN PI - q ELSE q
  IN IF y < 0 THEN -h ELSE h

(***************************************************************************)
(* Vector2.                                                                *)
(***************************************************************************)
Vector2(x, y) == [x |-> x, y |-> y]

getDirection(v) == atan2(v.y, v.x)

multiply(v, scalar) == Vector2(v.x * scalar, v.y * scalar)

\* addAndMutate: the receiver's new value.
addAndMutate(this, v) == Vector2(this.x + v.x, this.y + v.y)

\* Math.sqrt, rounded down where the root is not whole.
sqrt(n) == CHOOSE r \in 0..n : r * r <= n /\ n < (r + 1) * (r + 1)

\* Math.cos and Math.sin at whole quarter turns.
cos(a) ==
  CASE a % (2 * PI) = 0 -> 1
    [] a % (2 * PI) = PI -> -1
    [] OTHER -> 0

sin(a) ==
  CASE a % (2 * PI) = PI \div 2 -> 1
    [] a % (2 * PI) = 3 * (PI \div 2) -> -1
    [] OTHER -> 0

getMagnitude(vec) == sqrt(vec.x * vec.x + vec.y * vec.y)

add(this, vec) == Vector2(this.x + vec.x, this.y + vec.y)

subtract(this, vec) == Vector2(this.x - vec.x, this.y - vec.y)

absolute(this) == Vector2(Abs(this.x), Abs(this.y))

\* divide by a scalar other than 0; a quotient that is not whole is rounded
\* down.
divide(this, scalar) == Vector2(this.x \div scalar, this.y \div scalar)

normal(this, clockwise) ==
  Vector2(IF clockwise THEN this.y ELSE -this.y,
          IF clockwise THEN -this.x ELSE this.x)

(***************************************************************************)
(* Vector2 objects.  A heap is a sequence of vectors and a reference is a  *)
(* position in it; new Vector2(...) appends.  A method gives the heap      *)
(* after it and the reference it returns (0 for void).                     *)
(***************************************************************************)
New(h, vec) == [heap |-> Append(h, vec), ret |-> Len(h) + 1]

\* this.x = x; this.y = y
Assign(h, this, x, y) == [heap |-> [h EXCEPT ![this] = Vector2(x, y)], ret |-> 0]

Vector2_from(h, vec) == New(h, Vector2(h[vec].x, h[vec].y))

\* copy returning the receiver itself instead of a new vector.
Vector2_copy_alias(h, this) == [heap |-> h, ret |-> this]

Vector2_copy(h, this) == New(h, Vector2(h[this].x, h[this].y))

Vector2_add(h, this, vec) == New(h, add(h[this], h[vec]))

Vector2_subtract(h, this, vec) == New(h, subtract(h[this], h[vec]))

Vector2_multiply(h, this, scalar) == New(h, multiply(h[this], scalar))

Vector2_divide(h, this, scalar) == New(h, divide(h[this], scalar))

Vector2_absolute(h, this) == New(h, absolute(h[this]))

Vector2_normal(h, this, clockwise) == New(h, normal(h[this], clockwise))

Vector2_addAndMutate(h, this, vec) ==
  Assign(h, this, h[this].x + h[vec].x, h[this].y + h[vec].y)

Vector2_subtractAndMutate(h, this, vec) ==
  Assign(h, this, h[this].x - h[vec].x, h[this].y - h[vec].y)

Vector2_multiplyAndMutate(h, this, scalar) ==
  Assign(h, this, h[this].x * scalar, h[this].y * scalar)

Vector2_divideAndMutate(h, this, scalar) ==
  Assign(h, this, h[this].x \div scalar, h[this].y \div scalar)

Vector2_set(h, this, vec) == Assign(h, this, h[vec].x, h[vec].y)

\* this.set(this.absolute())
Vector2_absoluteAndMutate(h, this) ==
  Vector2_set(Vector2_absolute(h, this).heap, this, Vector2_absolute(h, this).ret)

\* x = cos(direction) * magnitude, y = sin(direction) * magnitude with
\* direction = atan2(y, x): cos(direction) is x / |this| and sin(direction)
\* is y / |this|, and for the zero vector direction is 0.  A product that
\* is not whole is rounded down.
Vector2_setMagnitude(h, this, magnitude) ==
  IF getMagnitude(h[this]) = 0 THEN Assign(h, this, magnitude, 0)
  ELSE Assign(h, this, (h[this].x * magnitude) \div getMagnitude(h[this]),
                       (h[this].y * magnitude) \div getMagnitude(h[this]))

\* radians is a whole number of quarter turns.
Vector2_setDirection(h, this, radians) ==
  Assign(h, this, cos(radians) * getMagnitude(h[this]),
                  sin(radians) * getMagnitude(h[this]))

(***************************************************************************)
(* Strings are sequences of one-character strings.                         *)
(***************************************************************************)
WhiteSpace == {" ", "\t", "\n", "\r"}
LineTerminators == {"\n", "\r"}
DecDigits == <<"0", "1", "2", "3", "4", "5", "6", "7", "8", "9">>
HexLower == DecDigits \o <<"a", "b", "c", "d", "e", "f">>
HexUpper == DecDigits \o <<"A", "B", "C", "D", "E", "F">>

Range(f) == {f[i] : i \in DOMAIN f}

\* The digits of a radix (10 or 16), and the value of one of them.
DigitsOf(radix) ==
  IF radix = 16 THEN Range(HexLower) \cup Range(HexUpper) ELSE Range(DecDigits)

DigitVal(ch) == CHOOSE k \in 0..15 : HexLower[k + 1] = ch \/ HexUpper[k + 1] = ch

\* The number of characters of s from position i on that are in set.
RECURSIVE RunLen(_, _, _)
RunLen(s, i, set) ==
  IF i > Len(s) \/ s[i] \notin set THEN 0 ELSE 1 + RunLen(s, i + 1, set)

\* The number of characters of s up to position i, backwards, in set.
RECURSIVE RunLenBack(_, _, _)
RunLenBack(s, i, set) ==
  IF i < 1 \/ s[i] \notin set THEN 0 ELSE 1 + RunLenBack(s, i - 1, set)

\* The value of a run of digits.
RECURSIVE ToNumber(_, _)
ToNumber(d, radix) ==
  IF d = <<>> THEN 0
  ELSE ToNumber(SubSeq(d, 1, Len(d) - 1), radix) * radix + DigitVal(d[Len(d)])

RECURSIVE Pow10(_)
Pow10(n) == IF n = 0 THEN 1 ELSE 10 * Pow10(n - 1)

\* String.prototype.trim
trim(s) ==
  LET lead == RunLen(s, 1, WhiteSpace)
      trail == IF lead = Len(s) THEN 0 ELSE RunLenBack(s, Len(s), WhiteSpace)
  IN SubSeq(s, lead + 1, Len(s) - trail)

\* String.prototype.substr(start, length), 0 <= start
substr(s, start, length) == SubSeq(s, start + 1, Min(Len(s), start + length))

\* s.indexOf(prefix) === 0
StartsWith(s, prefix) ==
  Len(s) >= Len(prefix) /\ SubSeq(s, 1, Len(prefix)) = prefix

\* A JavaScript value of a channel: a number num/den (den a power of ten),
\* NaN or undefined.
Number(num, den) == [t |-> "number", num |-> num, den |-> den]
NaN == [t |-> "NaN", num |-> 0, den |-> 1]
undefined == [t |-> "undefined", num |-> 0, den |-> 1]

\* parseInt(str, radix): leading white space, a sign and (radix 16) a 0x
\* prefix are skipped, then the longest run of digits is read; "NaN" when
\* there is none.
parseInt(str, radix) ==
  LET s1 == SubSeq(str, RunLen(str, 1, WhiteSpace) + 1, Len(str))
      signed == Len(s1) > 0 /\ s1[1] \in {"+", "-"}
      sign == IF signed /\ s1[1] = "-" THEN -1 ELSE 1
      s2 == IF signed THEN SubSeq(s1, 2, Len(s1)) ELSE s1
      s3 == IF radix = 16 /\ (StartsWith(s2, <<"0", "x">>) \/ StartsWith(s2, <<"0", "X">>))
            THEN SubSeq(s2, 3, Len(s2)) ELSE s2
      n == RunLen(s3, 1, DigitsOf(radix))
  IN IF n = 0 THEN NaN ELSE Number(sign * ToNumber(SubSeq(s3, 1, n), radix), 1)

\* parseFloat(str) for decimal literals without exponent: leading white
\* space and a sign are skipped, then digits, a point and digits are read;
\* "NaN" when no digit is read.
parseFloat(str) ==
  LET s1 == SubSeq(str, RunLen(str, 1, WhiteSpace) + 1, Len(str))
      signed == Len(s1) > 0 /\ s1[1] \in {"+", "-"}
      sign == IF signed /\ s1[1] = "-" THEN -1 ELSE 1
      s2 == IF signed THEN SubSeq(s1, 2, Len(s1)) ELSE s1
      ni == RunLen(s2, 1, Range(DecDigits))
      point == Len(s2) > ni /\ s2[ni + 1] = "."
      nf == IF point THEN RunLen(s2, ni + 2, Range(DecDigits)) ELSE 0
  IN IF ni + nf = 0 THEN NaN
     ELSE Number(sign * (ToNumber(SubSeq(s2, 1, ni), 10) * Pow10(nf)
                         + ToNumber(SubSeq(s2, ni + 2, ni + 1 + nf), 10)),
                 Pow10(nf))

(***************************************************************************)
(* Color.                                                                  *)
(***************************************************************************)
\* Color.RGB_COLOR_REGEX = /\((\d+),\s*(\d+),\s*(\d+)(,\s*(\d*.\d*))?\)/
\* \d+ and the \s* before it are each followed by a character outside their
\* class, so they take their whole run.
CharAt(s, k) == IF k >= 1 /\ k <= Len(s) THEN s[k] ELSE "end"

\* (\d+) n times with ",\s*" in between, from position p: the first and
\* last position of each group, or <<>> when they are not there.
RECURSIVE RegexNumbers(_, _, _)
RegexNumbers(s, p, n) ==
  LET d == RunLen(s, p, Range(DecDigits))
      rest == RegexNumbers(s, p + d + 1 + RunLen(s, p + d + 1, WhiteSpace), n - 1)
  IN IF d = 0 THEN <<>>
     ELSE IF n = 1 THEN <<<<p, p + d - 1>>>>
     ELSE IF CharAt(s, p + d) # "," \/ rest = <<>> THEN <<>>
     ELSE <<<<p, p + d - 1>>>> \o rest

\* (,\s*(\d*.\d*))?\) from position k: whether it is there, and group 5
\* (<<>> when the optional group takes no part; never empty when it does).
\* In the group, \s* and the first \d* are greedy and may give characters
\* back to the "." (any character but a line terminator): the match taken
\* has the most spaces, then the most leading digits.
RegexAlpha(s, k) ==
  LET digits == Range(DecDigits)
      tailEnd(ns, d1) == k + 1 + ns + d1 + 1
                         + RunLen(s, k + 1 + ns + d1 + 1, digits)
      tailOk(ns, d1) == /\ ns <= RunLen(s, k + 1, WhiteSpace)
                        /\ d1 <= RunLen(s, k + 1 + ns, digits)
                        /\ CharAt(s, k + 1 + ns + d1) \notin LineTerminators \cup {"end"}
                        /\ CharAt(s, tailEnd(ns, d1)) = ")"
      tails == {nd \in (0..Len(s)) \X (0..Len(s)) : tailOk(nd[1], nd[2])}
      best == CHOOSE nd \in tails :
                \A o \in tails : \/ o[1] < nd[1]
                                 \/ o[1] = nd[1] /\ o[2] <= nd[2]
  IN IF CharAt(s, k) = "," /\ tails # {}
       THEN [ok |-> TRUE,
             g5 |-> SubSeq(s, k + 1 + best[1], tailEnd(best[1], best[2]) - 1)]
     ELSE [ok |-> CharAt(s, k) = ")", g5 |-> <<>>]

\* The regular expression tried at position i of s: whether it matches, and
\* the groups 1, 2, 3 and 5.
RegexAt(s, i) ==
  LET nums == IF CharAt(s, i) = "(" THEN RegexNumbers(s, i + 1, 3) ELSE <<>>
      alpha == RegexAlpha(s, nums[3][2] + 1)
      g(n) == SubSeq(s, nums[n][1], nums[n][2])
  IN IF nums # <<>> /\ alpha.ok
       THEN [ok |-> TRUE, g1 |-> g(1), g2 |-> g(2), g3 |-> g(3), g5 |-> alpha.g5]
     ELSE [ok |-> FALSE, g1 |-> <<>>, g2 |-> <<>>, g3 |-> <<>>, g5 |-> <<>>]

\* RegExp.prototype.exec: the leftmost match, if any.
RegexExec(s) ==
  LET hits == {i \in 1..Len(s) : RegexAt(s, i).ok}
  IN IF hits = {} THEN RegexAt(s, 0)
     ELSE RegexAt(s, CHOOSE i \in hits : \A j \in hits : i <= j)

\* new Color(colorStr): the fields of the new object and whether
\* console.warn was called.  No path of the constructor throws.
Color(colorStr) ==
  LET r == trim(colorStr)
      unset == [r |-> undefined, g |-> undefined, b |-> undefined, a |-> undefined]
  IN IF StartsWith(r, <<"#">>)
       THEN LET h == SubSeq(r, 2, Len(r))
            IN [color |-> [unset EXCEPT !.r = parseInt(substr(h, 0, 2), 16),
                                        !.g = parseInt(substr(h, 2, 2), 16),
                                        !.b = parseInt(substr(h, 4, 2), 16)],
                warned |-> FALSE]
     ELSE IF StartsWith(r, <<"r", "g", "b">>)
       THEN LET res == RegexExec(r)
            IN IF ~res.ok
                 THEN [color |-> unset, warned |-> TRUE]
                 ELSE [color |-> [r |-> parseInt(res.g1, 10),
                                  g |-> parseInt(res.g2, 10),
                                  b |-> parseInt(res.g3, 10),
                                  a |-> IF res.g5 # <<>> THEN parseFloat(res.g5)
                                        ELSE Number(1, 1)],
                       warned |-> FALSE]
     ELSE [color |-> unset, warned |-> FALSE]

(***************************************************************************)
(* Boid.  A boid is [loc, dir, speed, perceptionAngle]; its color only     *)
(* reaches the drawing calls and is left out.                              *)
(***************************************************************************)
Boid(loc, dir, speed, perceptionAngle) ==
  [loc |-> loc, dir |-> dir, speed |-> speed, perceptionAngle |-> perceptionAngle]

\* between with the limits counted as inside.
between_inclusive(a, b, x) ==
  LET min == Min(a, b)
      max == Max(a, b)
  IN x >= min /\ x <= max

\* The inner function of checkIntersection.
between(a, b, x) ==
  LET min == Min(a, b)
      max == Max(a, b)
  IN x > min /\ x < max

\* checkIntersection taking every whole number of turns, none included,
\* for a full circle, and testing that before the zero width.
checkIntersection_turnsFirst(this, pointLocation, sectorLocation, sectorRadius, sectorStartAngle, sectorEndAngle) ==
  LET dx == pointLocation.x - sectorLocation.x
      dy == pointLocation.y - sectorLocation.y
      pointVectorAngle == atan2(dy, dx) - getDirection(this.dir)
  IN IF ~(dx * dx + dy * dy <= sectorRadius * sectorRadius) THEN FALSE
     ELSE IF Abs(sectorStartAngle - sectorEndAngle) % (PI * 2) = 0 THEN TRUE
     ELSE IF sectorStartAngle = sectorEndAngle THEN FALSE
     ELSE between(sectorStartAngle, sectorEndAngle, pointVectorAngle)

\* checkIntersection without the full-circle case.
checkIntersection_noFullCircle(this, pointLocation, sectorLocation, sectorRadius, sectorStartAngle, sectorEndAngle) ==
  LET dx == pointLocation.x - sectorLocation.x
      dy == pointLocation.y - sectorLocation.y
      pointVectorAngle == atan2(dy, dx) - getDirection(this.dir)
  IN IF ~(dx * dx + dy * dy <= sectorRadius * sectorRadius) THEN FALSE
     ELSE IF sectorStartAngle = sectorEndAngle THEN FALSE
     ELSE between(sectorStartAngle, sectorEndAngle, pointVectorAngle)

\* checkIntersection with the disk open: a point at the radius is outside.
checkIntersection_openDisk(this, pointLocation, sectorLocation, sectorRadius, sectorStartAngle, sectorEndAngle) ==
  LET dx == pointLocation.x - sectorLocation.x
      dy == pointLocation.y - sectorLocation.y
      pointVectorAngle == atan2(dy, dx) - getDirection(this.dir)
  IN IF ~(dx * dx + dy * dy < sectorRadius * sectorRadius) THEN FALSE
     ELSE IF sectorStartAngle = sectorEndAngle THEN FALSE
     ELSE IF Abs(sectorStartAngle - sectorEndAngle) = PI * 2 THEN TRUE
     ELSE between(sectorStartAngle, sectorEndAngle, pointVectorAngle)

\* Boid.checkIntersection; this is the boid it is called on.
checkIntersection(this, pointLocation, sectorLocation, sectorRadius, sectorStartAngle, sectorEndAngle) ==
  LET dx == pointLocation.x - sectorLocation.x
      dy == pointLocation.y - sectorLocation.y
      pointVectorAngle == atan2(dy, dx) - getDirection(this.dir)
  IN IF ~(dx * dx + dy * dy <= sectorRadius * sectorRadius) THEN FALSE
     ELSE IF sectorStartAngle = sectorEndAngle THEN FALSE
     ELSE IF Abs(sectorStartAngle - sectorEndAngle) = PI * 2 THEN TRUE
     ELSE between(sectorStartAngle, sectorEndAngle, pointVectorAngle)

\* wrap that carries the overshoot over to the opposite edge instead of
\* putting the location on it.
wrap_carry(loc, width, height) ==
  LET x1 == IF loc.x > width THEN loc.x - width ELSE loc.x
      x2 == IF x1 < 0 THEN x1 + width ELSE x1
      y1 == IF loc.y > height THEN loc.y - height ELSE loc.y
      y2 == IF y1 < 0 THEN y1 + height ELSE y1
  IN Vector2(x2, y2)

\* wrap with the edges themselves wrapped (>= and <=).
wrap_inclusive(loc, width, height) ==
  LET x1 == IF loc.x >= width THEN 0 ELSE loc.x
      x2 == IF x1 <= 0 THEN width ELSE x1
      y1 == IF loc.y >= height THEN 0 ELSE loc.y
      y2 == IF y1 <= 0 THEN height ELSE y1
  IN Vector2(x2, y2)

\* The four conditions of Boid.update that put an out-of-bounds location on
\* the opposite edge, in the order of the code.
wrap(loc, width, height) ==
  LET x1 == IF loc.x > width THEN 0 ELSE loc.x
      x2 == IF x1 < 0 THEN width ELSE x1
      y1 == IF loc.y > height THEN 0 ELSE loc.y
      y2 == IF y1 < 0 THEN height ELSE y1
  IN Vector2(x2, y2)

\* The angles Boid.update passes to checkIntersection: degrees to radians.
sectorAngles(perceptionAngle) ==
  [start |-> ((-perceptionAngle) * PI) \div 180,
   end |-> (perceptionAngle * PI) \div 180]

\* Boid.update perceiving before it wraps: the sector is tested at the
\* location the move gave.
Boid_update_perceiveFirst(this, dt, width, height) ==
  LET moved == addAndMutate(this.loc, multiply(this.dir, this.speed * dt))
      loc == wrap(moved, width, height)
      angles == sectorAngles(this.perceptionAngle)
      hit == checkIntersection([this EXCEPT !.loc = moved], Vector2(200, 200),
                               moved, 50, angles.start, angles.end)
  IN [this |-> [this EXCEPT !.loc = loc],
      moved |-> moved,
      args |-> <<200, 200, moved.x, moved.y, 50, angles.start, angles.end>>,
      hit |-> hit,
      r |-> IF hit THEN Number(0, 1) ELSE Number(255, 1),
      g |-> IF hit THEN Number(255, 1) ELSE Number(0, 1),
      b |-> Number(0, 1)]

\* Boid.update(deltaTime) with the field size width x height: the boid
\* afterwards, the location after the move and before the wrap, the
\* arguments and the result of its checkIntersection call, and the values
\* written to the indicator c.
Boid_update(this, dt, width, height) ==
  LET moved == addAndMutate(this.loc, multiply(this.dir, this.speed * dt))
      loc == wrap(moved, width, height)
      after == [this EXCEPT !.loc = loc]
      angles == sectorAngles(this.perceptionAngle)
      hit == checkIntersection(after, Vector2(200, 200), loc, 50,
                               angles.start, angles.end)
  IN [this |-> after,
      moved |-> moved,
      args |-> <<200, 200, loc.x, loc.y, 50, angles.start, angles.end>>,
      hit |-> hit,
      r |-> IF hit THEN Number(0, 1) ELSE Number(255, 1),
      g |-> IF hit THEN Number(255, 1) ELSE Number(0, 1),
      b |-> Number(0, 1)]

\* Boid.draw(): the translation and the rotation it hands to the canvas.
Boid_draw(this) == <<this.loc.x, this.loc.y, getDirection(this.dir)>>

\* An entry of calls.
Call(op, boid, args, ret) == [op |-> op, boid |-> boid, args |-> args, ret |-> ret]

(***************************************************************************)
(* The inputs the specifications draw from.                                *)
(***************************************************************************)
\* Field sizes given to background(): the sketch's own 600 x 600 and one
\* that is not square.
FieldSizes == {<<600, 600>>, <<600, 400>>, <<600, 0>>}

\* The boids the list is built from.  The first is the sketch's own, with
\* its direction not normalised and its speed scaled so that the step is a
\* whole number of pixels.  The others stand inside and outside the
\* perception disk of the target (200, 200), on and beyond the field's edges.
BoidChoices ==
  { Boid(Vector2(130, 100), Vector2(1, 1), 1, 120),
    Boid(Vector2(170, 200), Vector2(1, 0), 1, 120),
    Boid(Vector2(170, 200), Vector2(-1, 0), 1, 120),
    Boid(Vector2(200, 200), Vector2(0, -1), 1, 90),
    Boid(Vector2(601, -1), Vector2(1, 0), 1, 120),
    Boid(Vector2(600, 600), Vector2(1, 1), 1, 120),
    Boid(Vector2(600, 0), Vector2(-1, 0), 1, 90),
    Boid(Vector2(-1, 601), Vector2(0, -1), 1, 120),
    Boid(Vector2(200, 170), Vector2(0, 1), 1, 90),
    Boid(Vector2(230, 200), Vector2(1, 1), 1, 90),
    Boid(Vector2(165, 165), Vector2(1, 1), 2, 90),
    Boid(Vector2(170, 200), Vector2(-1, -1), 2, 120),
    Boid(Vector2(200, 250), Vector2(1, 0), 1, 120) }

\* The elapsed times a frame may be given, in milliseconds.
DeltaTimes == {0, 30, 700}

\* All sequences over S of length 1..n.
RECURSIVE SeqsUpTo(_, _)
SeqsUpTo(S, n) ==
  IF n = 0 THEN {}
  ELSE {<<x>> : x \in S}
       \cup {Append(s, x) : s \in SeqsUpTo(S, n - 1), x \in S}

\* Arguments of a direct checkIntersection call.  Angles are multiples of
\* 15 degrees, directions multiples of 45 degrees, so that no computed angle
\* falls inside the sector atan2 places it in.
SectorDirs ==
  {Vector2(1, 0), Vector2(0, 1), Vector2(-1, 0), Vector2(1, 1), Vector2(0, 0)}
SectorLocations == {Vector2(0, 0), Vector2(200, 200)}
PointOffsets ==
  {Vector2(0, 0), Vector2(3, 0), Vector2(3, 4), Vector2(0, 5), Vector2(-5, 0),
   Vector2(6, 0), Vector2(-3, -3), Vector2(4, -3)}
SectorRadii == {5, -5, 0}
SectorAngleChoices == {-PI, -240, 0, 90, 240, PI, 2 * PI}

SectorInputs ==
  { [dir |-> d, pointLocation |-> Vector2(l.x + o.x, l.y + o.y),
     sectorLocation |-> l, sectorRadius |-> r,
     sectorStartAngle |-> a, sectorEndAngle |-> e] :
    d \in SectorDirs, l \in SectorLocations, o \in PointOffsets,
    r \in SectorRadii, a \in SectorAngleChoices, e \in SectorAngleChoices }

NoSector ==
  [dir |-> Vector2(0, 0), pointLocation |-> Vector2(0, 0),
   sectorLocation |-> Vector2(0, 0), sectorRadius |-> 0,
   sectorStartAngle |-> 0, sectorEndAngle |-> 0]

\* Arguments of a Color constructor call.
HexPairs == {<<"0", "0">>, <<"f", "f">>, <<"7", "F">>, <<"0", "a">>}
Decimals == {<<"0">>, <<"2", "5", "5">>, <<"3", "0", "0">>}
RgbHeads == {<<"r", "g", "b", "(">>, <<"r", "g", "b", "a", "(">>}
RgbTails ==
  {<<")">>, <<",", "0", ".", "5", ")">>, <<",", " ", "1", ")">>, <<>>}

ColorStrings ==
  {<<"#">> \o x \o y \o z : x \in HexPairs, y \in HexPairs, z \in HexPairs}
  \cup {h \o x \o <<",">> \o sp \o y \o <<",">> \o sp \o z \o tl :
          h \in RgbHeads, x \in Decimals, y \in Decimals, z \in Decimals,
          sp \in {<<>>, <<" ">>}, tl \in RgbTails}
  \cup { <<" ", "#", "f", "f", "0", "0", "0", "0", " ">>,
         <<"#", "f", "f", "f">>,
         <<"#", "z", "z", "z", "z", "z", "z">>,
         <<"#">>,
         <<"r", "g", "b">>,
         <<"r", "g", "b", "(", "1", ",", "2", ")">>,
         <<"r", "g", "b", "a", "(", "1", ",", "2", ",", "3", ",", " ", "0", "5", ")">>,
         <<"r", "e", "d">>,
         <<"h", "s", "l", "(", "0", ",", "0", ",", "0", ")">>,
         <<"(", "1", ",", "2", ",", "3", ")">>,
         <<>> }

\* A Color whose constructor has not run.
NoColor == [r |-> undefined, g |-> undefined, b |-> undefined, a |-> undefined]

(***************************************************************************)
(* The sketch: setup, then the per-frame callback of index.ts.             *)
(***************************************************************************)
Init ==
  /\ \E size \in FieldSizes : CANVAS_WIDTH = size[1] /\ CANVAS_HEIGHT = size[2]
  /\ boids \in SeqsUpTo(BoidChoices, MaxBoids)
  /\ c = Color(<<"#", "f", "f", "0", "0", "0", "0">>).color
  /\ pc = "idle"
  /\ cur = 0
  /\ deltaTime = 0
  /\ calls = <<>>
  /\ frame = 0
  /\ sector = NoSector
  /\ result = FALSE
  /\ colorArg = <<>>
  /\ color = NoColor
  /\ warned = FALSE
  /\ VectorIdle
  /\ EngineIdle

\* The callback is entered with the frame's deltaTime and draws the target
\* circle in the indicator color.
FrameBegin(dt) ==
  /\ pc = "idle"
  /\ frame < MaxFrames
  /\ deltaTime' = dt
  /\ calls' = <<Call("circle", 0, <<200, 200, 25>>, "void")>>
  /\ cur' = 1
  /\ pc' = "update"
  /\ UNCHANGED <<CANVAS_WIDTH, CANVAS_HEIGHT, boids, c, frame>>
  /\ UNCHANGED <<sectorVars, colorVars, vectorVars, engineVars>>

\* boid.update(deltaTime) for the boid the loop is at.
BoidUpdate ==
  /\ pc = "update"
  /\ LET u == Boid_update(boids[cur], deltaTime, CANVAS_WIDTH, CANVAS_HEIGHT)
     IN /\ boids' = [boids EXCEPT ![cur] = u.this]
        /\ c' = [c EXCEPT !.r = u.r, !.g = u.g, !.b = u.b]
        /\ calls' = calls \o
             << Call("update", cur, <<deltaTime>>, "void"),
                Call("addAndMutate", cur, <<u.moved.x, u.moved.y>>, "void"),
                Call("checkIntersection", cur, u.args,
                     IF u.hit THEN "true" ELSE "false") >>
  /\ pc' = "draw"
  /\ UNCHANGED <<CANVAS_WIDTH, CANVAS_HEIGHT, cur, deltaTime, frame>>
  /\ UNCHANGED <<sectorVars, colorVars, vectorVars, engineVars>>

\* BoidDraw in a loop that stops one boid short.
BoidDraw_stopsShort ==
  /\ pc = "draw"
  /\ calls' = Append(calls, Call("draw", cur, Boid_draw(boids[cur]), "void"))
  /\ IF cur < Len(boids) - 1
       THEN cur' = cur + 1 /\ pc' = "update" /\ frame' = frame
       ELSE cur' = 0 /\ pc' = "idle" /\ frame' = frame + 1
  /\ UNCHANGED <<CANVAS_WIDTH, CANVAS_HEIGHT, boids, c, deltaTime>>
  /\ UNCHANGED <<sectorVars, colorVars, vectorVars, engineVars>>

\* boid.draw() for the same boid; the loop then moves on, and the callback
\* returns after the last boid.
BoidDraw ==
  /\ pc = "draw"
  /\ calls' = Append(calls, Call("draw", cur, Boid_draw(boids[cur]), "void"))
  /\ IF cur < Len(boids)
       THEN cur' = cur + 1 /\ pc' = "update" /\ frame' = frame
       ELSE cur' = 0 /\ pc' = "idle" /\ frame' = frame + 1
  /\ UNCHANGED <<CANVAS_WIDTH, CANVAS_HEIGHT, boids, c, deltaTime>>
  /\ UNCHANGED <<sectorVars, colorVars, vectorVars, engineVars>>

Next ==
  \/ \E dt \in DeltaTimes : FrameBegin(dt)
  \/ BoidUpdate
  \/ BoidDraw

Spec == Init /\ [][Next]_vars

(***************************************************************************)
(* A direct call of checkIntersection.                                     *)
(***************************************************************************)
InitSector ==
  /\ CANVAS_WIDTH = 600
  /\ CANVAS_HEIGHT = 600
  /\ boids = <<>>
  /\ c = NoColor
  /\ pc = "call"
  /\ cur = 0
  /\ deltaTime = 0
  /\ calls = <<>>
  /\ frame = 0
  /\ sector \in SectorInputs
  /\ result = FALSE
  /\ colorArg = <<>>
  /\ color = NoColor
  /\ warned = FALSE
  /\ VectorIdle
  /\ EngineIdle

CallCheckIntersection ==
  /\ pc = "call"
  /\ result' = checkIntersection(Boid(sector.sectorLocation, sector.dir, 0, 0),
                                 sector.pointLocation, sector.sectorLocation,
                                 sector.sectorRadius, sector.sectorStartAngle,
                                 sector.sectorEndAngle)
  /\ pc' = "returned"
  /\ UNCHANGED <<CANVAS_WIDTH, CANVAS_HEIGHT, boids, c, cur, deltaTime, calls, frame>>
  /\ UNCHANGED <<sector, colorVars, vectorVars, engineVars>>

NextSector == CallCheckIntersection

SpecSector == InitSector /\ [][NextSector]_vars

(***************************************************************************)
(* A call of the Color constructor with a string.                          *)
(***************************************************************************)
InitColor ==
  /\ CANVAS_WIDTH = 600
  /\ CANVAS_HEIGHT = 600
  /\ boids = <<>>
  /\ c = NoColor
  /\ pc = "new"
  /\ cur = 0
  /\ deltaTime = 0
  /\ calls = <<>>
  /\ frame = 0
  /\ sector = NoSector
  /\ result = FALSE
  /\ colorArg \in ColorStrings
  /\ color = NoColor
  /\ warned = FALSE
  /\ VectorIdle
  /\ EngineIdle

NewColor ==
  /\ pc = "new"
  /\ LET k == Color(colorArg)
     IN color' = k.color /\ warned' = k.warned
  /\ pc' = "constructed"
  /\ UNCHANGED <<CANVAS_WIDTH, CANVAS_HEIGHT, boids, c, cur, deltaTime, calls, frame>>
  /\ UNCHANGED <<sectorVars, colorArg, vectorVars, engineVars>>

NextColor == NewColor

SpecColor == InitColor /\ [][NextColor]_vars

(***************************************************************************)
(* Vector2 on its own: a vector, a second vector to use as an argument,    *)
(* copy() or from() taken of the first at some point, and the mutating and *)
(* the pure methods called on the vector and on its duplicate.             *)
(***************************************************************************)
MaxOps == 2

InitVectors == {Vector2(6, 8), Vector2(-3, 0), Vector2(0, 0)}

ArgVector == Vector2(1, -2)

Scalars == {-1, 2}

Magnitudes == {5}

Radians == {PI \div 2, PI}

Mutating ==
  {"addAndMutate", "subtractAndMutate", "multiplyAndMutate", "divideAndMutate",
   "absoluteAndMutate", "set", "setMagnitude", "setDirection"}

Pure == {"add", "subtract", "multiply", "divide", "absolute", "normal"}

\* The references the calling code holds to call a method on or to pass.
Receivers == {original, duplicate} \ {0}

VecArgs == {original, duplicate, 2} \ {0}

InitVector ==
  /\ CANVAS_WIDTH = 600
  /\ CANVAS_HEIGHT = 600
  /\ boids = <<>>
  /\ c = NoColor
  /\ pc = "vector"
  /\ cur = 0
  /\ deltaTime = 0
  /\ calls = <<>>
  /\ frame = 0
  /\ sector = NoSector
  /\ result = FALSE
  /\ colorArg = <<>>
  /\ color = NoColor
  /\ warned = FALSE
  /\ \E v0 \in InitVectors : heap = <<v0, ArgVector>>
  /\ original = 1
  /\ duplicate = 0
  /\ last = NoLast
  /\ ops = 0
  /\ EngineIdle

\* The effect of one method call on the variables other than duplicate.
Did(op, this, arg, res, count) ==
  /\ heap' = res.heap
  /\ last' = [op |-> op, this |-> this, arg |-> arg, ret |-> res.ret, before |-> heap]
  /\ ops' = ops + count
  /\ UNCHANGED <<original, boidVars, sectorVars, colorVars, engineVars>>

Copy ==
  /\ pc = "vector" /\ duplicate = 0
  /\ Did("copy", original, 0, Vector2_copy(heap, original), 0)
  /\ duplicate' = Vector2_copy(heap, original).ret

From ==
  /\ pc = "vector" /\ duplicate = 0
  /\ Did("from", 0, original, Vector2_from(heap, original), 0)
  /\ duplicate' = Vector2_from(heap, original).ret

Called == pc = "vector" /\ ops < MaxOps /\ UNCHANGED duplicate

AddAndMutate ==
  \E this \in Receivers, vec \in VecArgs :
    Called /\ Did("addAndMutate", this, vec, Vector2_addAndMutate(heap, this, vec), 1)

SubtractAndMutate ==
  \E this \in Receivers, vec \in VecArgs :
    Called /\ Did("subtractAndMutate", this, vec, Vector2_subtractAndMutate(heap, this, vec), 1)

MultiplyAndMutate ==
  \E this \in Receivers, scalar \in Scalars :
    Called /\ Did("multiplyAndMutate", this, scalar, Vector2_multiplyAndMutate(heap, this, scalar), 1)

DivideAndMutate ==
  \E this \in Receivers, scalar \in Scalars :
    Called /\ Did("divideAndMutate", this, scalar, Vector2_divideAndMutate(heap, this, scalar), 1)

AbsoluteAndMutate ==
  \E this \in Receivers :
    Called /\ Did("absoluteAndMutate", this, 0, Vector2_absoluteAndMutate(heap, this), 1)

Set ==
  \E this \in Receivers, vec \in VecArgs :
    Called /\ Did("set", this, vec, Vector2_set(heap, this, vec), 1)

SetMagnitude ==
  \E this \in Receivers, magnitude \in Magnitudes :
    Called /\ Did("setMagnitude", this, magnitude, Vector2_setMagnitude(heap, this, magnitude), 1)

SetDirection ==
  \E this \in Receivers, radians \in Radians :
    Called /\ Did("setDirection", this, radians, Vector2_setDirection(heap, this, radians), 1)

Add ==
  \E this \in Receivers, vec \in VecArgs :
    Called /\ Did("add", this, vec, Vector2_add(heap, this, vec), 1)

Subtract ==
  \E this \in Receivers, vec \in VecArgs :
    Called /\ Did("subtract", this, vec, Vector2_subtract(heap, this, vec), 1)

Multiply ==
  \E this \in Receivers, scalar \in Scalars :
    Called /\ Did("multiply", this, scalar, Vector2_multiply(heap, this, scalar), 1)

Divide ==
  \E this \in Receivers, scalar \in Scalars :
    Called /\ Did("divide", this, scalar, Vector2_divide(heap, this, scalar), 1)

Absolute ==
  \E this \in Receivers :
    Called /\ Did("absolute", this, 0, Vector2_absolute(heap, this), 1)

\* The argument recorded is 1 for clockwise and 0 for the default.
Normal ==
  \E this \in Receivers, clockwise \in BOOLEAN :
    Called /\ Did("normal", this, IF clockwise THEN 1 ELSE 0, Vector2_normal(heap, this, clockwise), 1)

NextVector ==
  \/ Copy
  \/ From
  \/ AddAndMutate
  \/ SubtractAndMutate
  \/ MultiplyAndMutate
  \/ DivideAndMutate
  \/ AbsoluteAndMutate
  \/ Set
  \/ SetMagnitude
  \/ SetDirection
  \/ Add
  \/ Subtract
  \/ Multiply
  \/ Divide
  \/ Absolute
  \/ Normal

SpecVector == InitVector /\ [][NextVector]_vars

(***************************************************************************)
(* The engine's main loop: update(callback) and the two functions it hands *)
(* to requestAnimationFrame.  The browser delivers one animation frame at  *)
(* a time and runs what was requested for it; raf is "frame" when that is  *)
(* the function of lines 204-209 and "update" when it is the function of   *)
(* line 208.  The callback is any function: its invocations are recorded   *)
(* in calls, with the deltaTime it was given, and in invoked.              *)
(***************************************************************************)
MaxAnimationFrames == 5

\* Milliseconds from one animation frame, or from the call of update, to the
\* next animation frame.
FrameTimes == {16, 17, 33}

InitEngine ==
  /\ CANVAS_WIDTH = 600
  /\ CANVAS_HEIGHT = 600
  /\ boids = <<>>
  /\ c = NoColor
  /\ pc = "engine"
  /\ cur = 0
  /\ deltaTime = 0
  /\ calls = <<>>
  /\ frame = 0
  /\ sector = NoSector
  /\ result = FALSE
  /\ colorArg = <<>>
  /\ color = NoColor
  /\ warned = FALSE
  /\ VectorIdle
  /\ EngineIdle

\* update(callback), lines 203-204: then = Date.now(), and the function of
\* lines 204-209 is requested.
EngineUpdate ==
  /\ pc = "engine" /\ raf = "none"
  /\ then' = clock
  /\ raf' = "frame"
  /\ UNCHANGED <<clock, rafFrames, invoked>>
  /\ UNCHANGED <<boidVars, sectorVars, colorVars, vectorVars>>

\* An animation frame that runs the function of lines 204-209: clear(), the
\* callback with now - then, then = now, and the function of line 208 is
\* requested.  clear() is background(CANVAS_WIDTH, CANVAS_HEIGHT, ...),
\* which assigns the field size to itself.
AnimationFrame(elapsed) ==
  /\ pc = "engine" /\ raf = "frame" /\ rafFrames < MaxAnimationFrames
  /\ clock' = clock + elapsed
  /\ rafFrames' = rafFrames + 1
  /\ calls' = calls \o <<Call("clear", 0, <<>>, "void"),
                        Call("callback", 0, <<clock' - then>>, "void")>>
  /\ deltaTime' = clock' - then
  /\ invoked' = Append(invoked, clock')
  /\ then' = clock'
  /\ raf' = "update"
  /\ CANVAS_WIDTH' = CANVAS_WIDTH /\ CANVAS_HEIGHT' = CANVAS_HEIGHT
  /\ UNCHANGED <<boids, c, pc, cur, frame>>
  /\ UNCHANGED <<sectorVars, colorVars, vectorVars>>

\* An animation frame that runs the function of line 208: update(callback)
\* again, with a then of its own.
AnimationFrameUpdate(elapsed) ==
  /\ pc = "engine" /\ raf = "update" /\ rafFrames < MaxAnimationFrames
  /\ clock' = clock + elapsed
  /\ rafFrames' = rafFrames + 1
  /\ then' = clock'
  /\ raf' = "frame"
  /\ UNCHANGED invoked
  /\ UNCHANGED <<boidVars, sectorVars, colorVars, vectorVars>>

NextEngine ==
  \/ EngineUpdate
  \/ \E elapsed \in FrameTimes : AnimationFrame(elapsed)
  \/ \E elapsed \in FrameTimes : AnimationFrameUpdate(elapsed)

SpecEngine == InitEngine /\ [][NextEngine]_vars

(***************************************************************************)
(* Properties.                                                             *)
(***************************************************************************)
\* The entries of calls made for boid i by operation op.
CallsOf(op, i) == SelectSeq(calls, LAMBDA e : e.op = op /\ e.boid = i)

\* The red, green and blue of a Color.
RGB(col) == <<col.r, col.g, col.b>>
Green == <<Number(0, 1), Number(255, 1), Number(0, 1)>>
Red == <<Number(255, 1), Number(0, 1), Number(0, 1)>>

\* One coordinate wrapped against the field size: above the size it becomes
\* 0, below 0 it becomes the size, and otherwise (0 and the size included)
\* it stays.
WrappedCoord(v, size) == IF v > size THEN 0 ELSE IF v < 0 THEN size ELSE v

\* C1: after Boid.update each coordinate of the location is the coordinate
\* the move gave, wrapped against the field size of its own axis: strictly
\* above the size it is 0, strictly below 0 it is the size, and exactly 0 or
\* exactly the size it is unchanged.
C1_Wrap ==
  \A k \in DOMAIN calls :
    calls[k].op = "addAndMutate" =>
      LET loc == boids[calls[k].boid].loc
      IN /\ loc.x = WrappedCoord(calls[k].args[1], CANVAS_WIDTH)
         /\ loc.y = WrappedCoord(calls[k].args[2], CANVAS_HEIGHT)

\* C1's case: a boid at x = width + 1 is at x = 0 after update(0).
C1_Witness ==
  \E k \in DOMAIN calls :
    /\ calls[k].op = "addAndMutate"
    /\ deltaTime = 0
    /\ calls[k].args[1] = CANVAS_WIDTH + 1
    /\ boids[calls[k].boid].loc.x = 0

\* C2: the sector Boid.update hands to checkIntersection starts at
\* -perceptionAngle/2 and ends at +perceptionAngle/2, in radians, so that it
\* is perceptionAngle wide.
C2_HalfAngles ==
  \A k \in DOMAIN calls :
    calls[k].op = "checkIntersection" =>
      LET pa == boids[calls[k].boid].perceptionAngle
      IN /\ calls[k].args[6] = -((pa * PI) \div 360)
         /\ calls[k].args[7] = (pa * PI) \div 360
         /\ calls[k].args[7] - calls[k].args[6] = (pa * PI) \div 180

\* The squared distance of the call's point from its sector location.
Dist2(s) ==
  (s.pointLocation.x - s.sectorLocation.x) * (s.pointLocation.x - s.sectorLocation.x)
  + (s.pointLocation.y - s.sectorLocation.y) * (s.pointLocation.y - s.sectorLocation.y)

FullCircle(s) == Abs(s.sectorStartAngle - s.sectorEndAngle) = 2 * PI

C4_ZeroWidth ==
  (pc = "returned" /\ sector.sectorStartAngle = sector.sectorEndAngle)
  => ~result

\* C4's case: equal angles, the point at the sector's own location, inside
\* a nonzero radius.
C4_Witness ==
  /\ pc = "returned"
  /\ sector.sectorStartAngle = sector.sectorEndAngle
  /\ sector.pointLocation = sector.sectorLocation
  /\ sector.sectorRadius # 0
  /\ ~result

\* C5: checkIntersection is true whenever |start - end| = 2 PI and the
\* point's squared distance is at most the squared radius, whatever the
\* point's angle and the facing direction.
C5_FullCircle ==
  ( /\ pc = "returned"
    /\ FullCircle(sector)
    /\ Dist2(sector) <= sector.sectorRadius * sector.sectorRadius )
  => result

\* C5's case: a full circle from 0 to 2 PI, the point inside the radius at
\* an angle that is not between the two angles.
C5_Witness ==
  /\ pc = "returned"
  /\ sector.sectorStartAngle = 0
  /\ sector.sectorEndAngle = 2 * PI
  /\ sector.dir = Vector2(-1, 0)
  /\ sector.pointLocation.x = sector.sectorLocation.x + 3
  /\ sector.pointLocation.y = sector.sectorLocation.y
  /\ sector.sectorRadius = 5
  /\ result

\* The four-step rule: outside the closed disk, false; else equal angles,
\* false; else a full circle, true; else true exactly when the angle of the
\* point minus the facing angle is strictly between the two angles.
ReferenceRule(s) ==
  LET angle == atan2(s.pointLocation.y - s.sectorLocation.y,
                     s.pointLocation.x - s.sectorLocation.x)
               - atan2(s.dir.y, s.dir.x)
      lo == Min(s.sectorStartAngle, s.sectorEndAngle)
      hi == Max(s.sectorStartAngle, s.sectorEndAngle)
  IN CASE Dist2(s) > s.sectorRadius * s.sectorRadius -> FALSE
       [] OTHER ->
            CASE s.sectorStartAngle = s.sectorEndAngle -> FALSE
              [] OTHER ->
                   CASE FullCircle(s) -> TRUE
                     [] OTHER -> lo < angle /\ angle < hi

\* C6: for every input checkIntersection returns the value of the four-step
\* rule.
C6_Reference == pc = "returned" => (result <=> ReferenceRule(sector))

\* C6's case: a point at exactly the radius, inside the angles: true.
C6_Witness ==
  /\ pc = "returned"
  /\ Dist2(sector) = sector.sectorRadius * sector.sectorRadius
  /\ sector.sectorRadius # 0
  /\ ~FullCircle(sector)
  /\ result

\* C7: the indicator is only ever red or green; and when Boid.update has
\* returned, its checkIntersection call was made last, after the move and
\* the wrap, for the target (200, 200) and radius 50 at the boid's wrapped
\* location, and the indicator is green if that call returned true and red
\* if it returned false.
C7_Indicator ==
  /\ RGB(c) \in {Green, Red}
  /\ pc = "draw" =>
       LET e == calls[Len(calls)]
           m == calls[Len(calls) - 1]
           b == boids[cur]
       IN /\ e.op = "checkIntersection" /\ e.boid = cur
          /\ m.op = "addAndMutate" /\ m.boid = cur
          /\ b.loc = Vector2(WrappedCoord(m.args[1], CANVAS_WIDTH),
                             WrappedCoord(m.args[2], CANVAS_HEIGHT))
          /\ SubSeq(e.args, 1, 5) = <<200, 200, b.loc.x, b.loc.y, 50>>
          /\ e.ret = IF checkIntersection(b, Vector2(200, 200), b.loc, 50,
                                          e.args[6], e.args[7])
                     THEN "true" ELSE "false"
          /\ RGB(c) = IF e.ret = "true" THEN Green ELSE Red

\* C7's case: an update with a positive deltaTime has moved the boid and
\* turned the indicator green.
C7_Witness ==
  /\ pc = "draw"
  /\ deltaTime > 0
  /\ boids[cur].speed > 0
  /\ RGB(c) = Green

\* The update and draw calls of the running (or last) callback.
UpdatesAndDraws == SelectSeq(calls, LAMBDA e : e.op \in {"update", "draw"})

\* C8: in a callback the update and draw calls come boid by boid, update
\* then draw, every update with the callback's deltaTime; and when the
\* callback has returned every boid of the list has had exactly one of
\* each.
C8_UpdateThenDraw ==
  LET ud == UpdatesAndDraws
  IN /\ \A k \in DOMAIN ud :
          /\ ud[k].boid = (k + 1) \div 2
          /\ ud[k].op = IF k % 2 = 1 THEN "update" ELSE "draw"
          /\ ud[k].op = "update" => ud[k].args = <<deltaTime>>
     /\ (pc = "idle" /\ frame > 0) => Len(ud) = 2 * Len(boids)
     /\ \A i \in DOMAIN boids :
          /\ Len(CallsOf("update", i)) <= 1
          /\ Len(CallsOf("draw", i)) <= Len(CallsOf("update", i))

\* C8's case: a callback over two boids with deltaTime 30 has returned.
C8_Witness ==
  /\ pc = "idle"
  /\ frame > 0
  /\ Len(boids) = 2
  /\ deltaTime = 30
  /\ Len(UpdatesAndDraws) = 4

\* The recognized formats: "#" and six hexadecimal digits, or a string that
\* starts with rgb and matches the pattern.
IsHexFormat(s) ==
  /\ Len(trim(s)) = 7
  /\ trim(s)[1] = "#"
  /\ \A i \in 2..7 : trim(s)[i] \in DigitsOf(16)

IsRgbFormat(s) == StartsWith(trim(s), <<"r", "g", "b">>) /\ RegexExec(trim(s)).ok

GivesAlpha(s) == IsRgbFormat(s) /\ RegexExec(trim(s)).g5 # <<>>

IsByte(v) == v.t = "number" /\ v.den = 1 /\ v.num >= 0 /\ v.num <= 255

\* C9: a Color constructed from a string in a recognized format has r, g
\* and b integers in 0..255, and a = 1.0 when the string gives no alpha.
C9_RecognizedChannels ==
  (pc = "constructed" /\ (IsHexFormat(colorArg) \/ IsRgbFormat(colorArg)))
  => /\ IsByte(color.r) /\ IsByte(color.g) /\ IsByte(color.b)
     /\ ~GivesAlpha(colorArg) => color.a = Number(1, 1)

\* C10: constructing a Color from a string in no recognized format warns
\* and leaves r, g, b and a unset (no path of the constructor throws).
C10_UnrecognizedWarns ==
  (pc = "constructed" /\ ~IsHexFormat(colorArg) /\ ~IsRgbFormat(colorArg))
  => warned /\ color = NoColor

(***************************************************************************)
(* C11.  A vector obtained by copy() or Vector2.from() is independent of   *)
(* the vector it was taken of: a mutating method called on either of the   *)
(* two leaves the x and y of the other as they were, and indeed changes no *)
(* vector but its receiver; and the pure methods add, subtract, multiply,  *)
(* divide, absolute and normal change no vector that existed before the    *)
(* call, so neither their receiver nor their argument, and return a new    *)
(* one.  copy() and from() themselves return a new vector with the x and y *)
(* of the one they were given and leave that one unchanged.                *)
(***************************************************************************)
Kept(r) == r \in DOMAIN last.before /\ heap[r] = last.before[r]

C11_Independent ==
  /\ (last.op \in Mutating /\ duplicate # 0) =>
       /\ last.this = original => Kept(duplicate)
       /\ last.this = duplicate => Kept(original)
  /\ last.op \in Mutating =>
       \A r \in DOMAIN last.before : r # last.this => heap[r] = last.before[r]
  /\ last.op \in Pure =>
       /\ \A r \in DOMAIN last.before : heap[r] = last.before[r]
       /\ last.ret \notin DOMAIN last.before
  /\ last.op \in {"copy", "from"} =>
       /\ \A r \in DOMAIN last.before : heap[r] = last.before[r]
       /\ heap[duplicate] = heap[original]

\* A mutating method called on the duplicate changed it, with the vector it
\* was copied of as the argument, and the two now differ.
C11_Witness ==
  /\ last.op \in Mutating
  /\ duplicate # 0
  /\ last.this = duplicate
  /\ last.arg = original
  /\ heap[duplicate] # last.before[duplicate]
  /\ heap[duplicate] # heap[original]
  /\ ops = 2

\* The callback's invocations, in order.
Callbacks == SelectSeq(calls, LAMBDA e : e.op = "callback")

\* Every animation frame delivered since update(callback) was called has
\* invoked the callback, once.
OncePerFrame == Len(Callbacks) = rafFrames

\* Every invocation of the callback comes right after a clear().
AfterClear ==
  \A k \in DOMAIN calls :
    calls[k].op = "callback" => k > 1 /\ calls[k - 1].op = "clear"

\* From the second invocation on, the callback is given the time since its
\* previous invocation.
SincePrevious ==
  \A i \in 2..Len(Callbacks) : Callbacks[i].args[1] = invoked[i] - invoked[i - 1]

(***************************************************************************)
(* C12.  Once update(callback) has been called, every animation frame      *)
(* invokes the callback exactly once, after clear(), with the time elapsed *)
(* since the callback's previous invocation as deltaTime.                  *)
(***************************************************************************)
C12_EveryFrame == raf # "none" => OncePerFrame /\ AfterClear /\ SincePrevious

\* Boid i has had update called on it: in a frame already completed, or
\* earlier in the running one.
Updated(i) ==
  \/ frame > 0
  \/ pc \in {"update", "draw"} /\ i < cur
  \/ pc = "draw" /\ i = cur

InField(loc) ==
  /\ 0 <= loc.x /\ loc.x <= CANVAS_WIDTH
  /\ 0 <= loc.y /\ loc.y <= CANVAS_HEIGHT

(***************************************************************************)
(* C13.  Once update has been called on a boid, and after every later      *)
(* update, its location is in the field, edges included: 0 <= x <=         *)
(* CANVAS_WIDTH and 0 <= y <= CANVAS_HEIGHT, wherever it started and       *)
(* however far the step went, for every field size from 0 up.              *)
(***************************************************************************)
C13_InField == \A i \in DOMAIN boids : Updated(i) => InField(boids[i].loc)

\* C13's case: in a second frame, one step takes a boid beyond the field by
\* more than the field's size on an axis, above or below, and the update
\* leaves it on the field's edge.
Overshot(k) ==
  \/ calls[k].args[1] > 2 * CANVAS_WIDTH
  \/ calls[k].args[1] < -CANVAS_WIDTH
  \/ calls[k].args[2] > 2 * CANVAS_HEIGHT
  \/ calls[k].args[2] < -CANVAS_HEIGHT

C13_Witness ==
  \E k \in DOMAIN calls :
    /\ calls[k].op = "addAndMutate"
    /\ frame > 0
    /\ CANVAS_HEIGHT > 0
    /\ Overshot(k)
    /\ InField(boids[calls[k].boid].loc)


====
